---- MODULE Spec2Model ----
(***************************************************************************)
(* Model of the interface-extraction tool of the swap program template     *)
(* (src/template/src/main.rs): the command-line dispatch of main, the file *)
(* loading of dump_program_info and the five pattern rules of              *)
(* parse_program_info.  Source text is a TLA+ string and every pattern is  *)
(* matched character by character.                                         *)
(***************************************************************************)
EXTENDS Integers, Sequences, FiniteSets, TLC

VARIABLES args, file, pc, lib_content, program_info, stdout, stderr, exit_code,
          scan, fields_str, account_fields, struct_fields

vars == <<args, file, pc, lib_content, program_info, stdout, stderr, exit_code,
          scan, fields_str, account_fields, struct_fields>>

(***************************************************************************)
(* Bounds of the model                                                     *)
(***************************************************************************)
MaxDecls == 2
MaxLines == 3
MaxParDecls == 2

(***************************************************************************)
(* Characters and string primitives (Rust str methods used by the parser)  *)
(***************************************************************************)
Ch(s, i) == SubSeq(s, i, i)

Min(S) == CHOOSE m \in S : \A n \in S : m <= n

Max(S) == CHOOSE m \in S : \A n \in S : m >= n

\* White_Space as used by str::trim, split_whitespace and the pattern class \s
WhiteSpace == {" ", "\t", "\n", "\r"}

\* the pattern class \w
WordChars ==
  {"a","b","c","d","e","f","g","h","i","j","k","l","m",
   "n","o","p","q","r","s","t","u","v","w","x","y","z",
   "A","B","C","D","E","F","G","H","I","J","K","L","M",
   "N","O","P","Q","R","S","T","U","V","W","X","Y","Z",
   "0","1","2","3","4","5","6","7","8","9","_"}

is_empty(s) == Len(s) = 0

starts_with(s, lit) == Len(lit) <= Len(s) /\ SubSeq(s, 1, Len(lit)) = lit

\* does the literal lit occur in s at position i
LitAt(s, i, lit) ==
  /\ i >= 1
  /\ i + Len(lit) - 1 <= Len(s)
  /\ SubSeq(s, i, i + Len(lit) - 1) = lit

\* greedy run of a character class: first position >= i whose character is
\* not in class (Len(s)+1 when the run reaches the end of the text)
RunEnd(s, i, class) ==
  LET stop == {j \in i..Len(s) : Ch(s, j) \notin class}
  IN IF stop = {} THEN Len(s) + 1 ELSE Min(stop)

\* greedy run of a negated class [^c]: first position >= i holding c
UntilChar(s, i, c) ==
  LET stop == {j \in i..Len(s) : Ch(s, j) = c}
  IN IF stop = {} THEN Len(s) + 1 ELSE Min(stop)

\* first position >= i whose character is in class
UntilClass(s, i, class) ==
  LET stop == {j \in i..Len(s) : Ch(s, j) \in class}
  IN IF stop = {} THEN Len(s) + 1 ELSE Min(stop)

trim(s) ==
  LET idx == {i \in 1..Len(s) : Ch(s, i) \notin WhiteSpace}
  IN IF idx = {} THEN "" ELSE SubSeq(s, Min(idx), Max(idx))

\* str::lines: split at "\n", a "\r" before the "\n" is dropped, and a
\* final empty line is not produced
RECURSIVE lines(_)
lines(s) ==
  IF s = "" THEN <<>>
  ELSE LET nl == UntilChar(s, 1, "\n")
           raw == SubSeq(s, 1, nl - 1)
           ln == IF nl <= Len(s) /\ raw # "" /\ Ch(raw, Len(raw)) = "\r"
                 THEN SubSeq(raw, 1, Len(raw) - 1) ELSE raw
       IN IF nl > Len(s) THEN <<ln>>
          ELSE <<ln>> \o lines(SubSeq(s, nl + 1, Len(s)))

\* str::split(c): always at least one piece
RECURSIVE split(_, _)
split(s, c) ==
  LET p == UntilChar(s, 1, c)
  IN IF p > Len(s) THEN <<s>>
     ELSE <<SubSeq(s, 1, p - 1)>> \o split(SubSeq(s, p + 1, Len(s)), c)

\* str::split_once(c): None, or the text before and after the first c
NoSplit == [some |-> FALSE, before |-> "", after |-> ""]

split_once(s, c) ==
  LET p == UntilChar(s, 1, c)
  IN IF p > Len(s) THEN NoSplit
     ELSE [some |-> TRUE, before |-> SubSeq(s, 1, p - 1),
           after |-> SubSeq(s, p + 1, Len(s))]

\* str::split_whitespace: the maximal runs of non-white-space characters
RECURSIVE split_whitespace(_)
split_whitespace(s) ==
  LET b == RunEnd(s, 1, WhiteSpace)
  IN IF b > Len(s) THEN <<>>
     ELSE LET e == UntilClass(s, b, WhiteSpace)
          IN <<SubSeq(s, b, e - 1)>> \o split_whitespace(SubSeq(s, e, Len(s)))

\* Option<&str>::unwrap_or("") of Iterator::last / Iterator::next
last_or_empty(toks) == IF toks = <<>> THEN "" ELSE toks[Len(toks)]

next_or_empty(toks) == IF toks = <<>> THEN "" ELSE toks[1]

(***************************************************************************)
(* The five patterns.  XxxAt(s, i) is the match of the pattern that starts *)
(* at position i of s, or NoMatch; end is the position after the match.    *)
(***************************************************************************)
NoMatch == [start |-> 0]

IsMatch(m) == m.start # 0

\* declare_id!\("([^"]+)"\)
DeclareIdAt(s, i) ==
  LET lit == "declare_id!(\""
      p == i + Len(lit)
      q == UntilChar(s, p, "\"")
  IN IF LitAt(s, i, lit) /\ q > p /\ LitAt(s, q, "\")")
     THEN [start |-> i, end |-> q + 2, id |-> SubSeq(s, p, q - 1)]
     ELSE NoMatch

\* pub fn (\w+)\(ctx: Context<([^>]+)>(?:, ([^)]+))?\)
InstructionAt(s, i) ==
  LET n0 == i + Len("pub fn ")
      n1 == RunEnd(s, n0, WordChars)
      c0 == n1 + Len("(ctx: Context<")
      c1 == UntilChar(s, c0, ">")
      a0 == c1 + 1 + Len(", ")
      a1 == UntilChar(s, a0, ")")
  IN IF /\ LitAt(s, i, "pub fn ") /\ n1 > n0
        /\ LitAt(s, n1, "(ctx: Context<") /\ c1 > c0 /\ c1 <= Len(s)
     THEN IF LitAt(s, c1 + 1, ", ") /\ a1 > a0 /\ a1 <= Len(s)
          THEN [start |-> i, end |-> a1 + 1, name |-> SubSeq(s, n0, n1 - 1),
                context |-> SubSeq(s, c0, c1 - 1),
                has_args |-> TRUE, args_str |-> SubSeq(s, a0, a1 - 1)]
          ELSE IF LitAt(s, c1 + 1, ")")
          THEN [start |-> i, end |-> c1 + 2, name |-> SubSeq(s, n0, n1 - 1),
                context |-> SubSeq(s, c0, c1 - 1),
                has_args |-> FALSE, args_str |-> ""]
          ELSE NoMatch
     ELSE NoMatch

\* the tail \s*\{([^}]+)\} shared by three patterns, from position b0
BodyAt(s, b0) ==
  LET b == RunEnd(s, b0, WhiteSpace)
      e == UntilChar(s, b + 1, "}")
  IN IF LitAt(s, b, "{") /\ e > b + 1 /\ e <= Len(s)
     THEN [start |-> b, end |-> e + 1, fields_str |-> SubSeq(s, b + 1, e - 1)]
     ELSE NoMatch

\* #\[derive\(Accounts\)\]\s+pub struct (\w+)<[^>]*>\s*\{([^}]+)\}
AccountAt(s, i) ==
  LET w0 == i + Len("#[derive(Accounts)]")
      w1 == RunEnd(s, w0, WhiteSpace)
      n0 == w1 + Len("pub struct ")
      n1 == RunEnd(s, n0, WordChars)
      g1 == UntilChar(s, n1 + 1, ">")
      body == BodyAt(s, g1 + 1)
  IN IF /\ LitAt(s, i, "#[derive(Accounts)]") /\ w1 > w0
        /\ LitAt(s, w1, "pub struct ") /\ n1 > n0
        /\ LitAt(s, n1, "<") /\ g1 <= Len(s)
        /\ IsMatch(body)
     THEN [start |-> i, end |-> body.end, decl |-> w1,
           name |-> SubSeq(s, n0, n1 - 1), fields_str |-> body.fields_str]
     ELSE NoMatch

\* pub enum Error\s*\{([^}]+)\}
ErrorAt(s, i) ==
  LET body == BodyAt(s, i + Len("pub enum Error"))
  IN IF LitAt(s, i, "pub enum Error") /\ IsMatch(body)
     THEN [start |-> i, end |-> body.end, errors_str |-> body.fields_str]
     ELSE NoMatch

\* variant: pub struct (\w+)(?:<[^>]*>)?\s*\{([^}]+)\}
StructAt_generic(s, i) ==
  LET n0 == i + Len("pub struct ")
      n1 == RunEnd(s, n0, WordChars)
      g1 == UntilChar(s, n1 + 1, ">")
      body == IF LitAt(s, n1, "<") /\ g1 <= Len(s)
              THEN BodyAt(s, g1 + 1) ELSE BodyAt(s, n1)
  IN IF LitAt(s, i, "pub struct ") /\ n1 > n0 /\ IsMatch(body)
     THEN [start |-> i, end |-> body.end, decl |-> i,
           name |-> SubSeq(s, n0, n1 - 1), fields_str |-> body.fields_str]
     ELSE NoMatch

\* pub struct (\w+)\s*\{([^}]+)\}
StructAt(s, i) ==
  LET n0 == i + Len("pub struct ")
      n1 == RunEnd(s, n0, WordChars)
      body == BodyAt(s, n1)
  IN IF LitAt(s, i, "pub struct ") /\ n1 > n0 /\ IsMatch(body)
     THEN [start |-> i, end |-> body.end, decl |-> i,
           name |-> SubSeq(s, n0, n1 - 1), fields_str |-> body.fields_str]
     ELSE NoMatch

\* Regex::captures / the next step of Regex::captures_iter: the leftmost
\* match of each pattern that starts at or after from
FirstAt(cand) == IF cand = {} THEN 0 ELSE Min(cand)

FindDeclareId(s, from) ==
  DeclareIdAt(s, FirstAt({i \in from..Len(s) : IsMatch(DeclareIdAt(s, i))}))

FindInstruction(s, from) ==
  InstructionAt(s, FirstAt({i \in from..Len(s) : IsMatch(InstructionAt(s, i))}))

FindAccount(s, from) ==
  AccountAt(s, FirstAt({i \in from..Len(s) : IsMatch(AccountAt(s, i))}))

FindError(s, from) ==
  ErrorAt(s, FirstAt({i \in from..Len(s) : IsMatch(ErrorAt(s, i))}))

FindStruct(s, from) ==
  StructAt(s, FirstAt({i \in from..Len(s) : IsMatch(StructAt(s, i))}))

\* Regex::captures_iter: the successive non-overlapping matches
RECURSIVE instruction_captures(_, _)
instruction_captures(s, from) ==
  LET m == FindInstruction(s, from)
  IN IF IsMatch(m) THEN <<m>> \o instruction_captures(s, m.end) ELSE <<>>

RECURSIVE account_captures(_, _)
account_captures(s, from) ==
  LET m == FindAccount(s, from)
  IN IF IsMatch(m) THEN <<m>> \o account_captures(s, m.end) ELSE <<>>

RECURSIVE struct_captures(_, _)
struct_captures(s, from) ==
  LET m == FindStruct(s, from)
  IN IF IsMatch(m) THEN <<m>> \o struct_captures(s, m.end) ELSE <<>>

RECURSIVE declare_id_captures(_, _)
declare_id_captures(s, from) ==
  LET m == FindDeclareId(s, from)
  IN IF IsMatch(m) THEN <<m>> \o declare_id_captures(s, m.end) ELSE <<>>

(***************************************************************************)
(* Records built by parse_program_info                                     *)
(***************************************************************************)
ErrorCodeBase == 6000

EmptyProgramInfo ==
  [program_id |-> "", instructions |-> <<>>, accounts |-> <<>>,
   errors |-> <<>>, structs |-> <<>>]

\* variant: the fragment is split at its last colon
argument_of_last_colon(arg) ==
  LET a == trim(arg)
      cs == {i \in 1..Len(a) : Ch(a, i) = ":"}
  IN IF cs # {}
     THEN <<[name |-> trim(SubSeq(a, 1, Max(cs) - 1)),
             type_name |-> trim(SubSeq(a, Max(cs) + 1, Len(a)))]>>
     ELSE <<>>

\* one fragment of the argument list: trimmed, then split at its first colon
argument_of(arg) ==
  LET sp == split_once(trim(arg), ":")
  IN IF sp.some
     THEN <<[name |-> trim(sp.before), type_name |-> trim(sp.after)]>>
     ELSE <<>>

RECURSIVE arguments_from(_, _)
arguments_from(frags, k) ==
  IF k > Len(frags) THEN <<>>
  ELSE argument_of(frags[k]) \o arguments_from(frags, k + 1)

parse_arguments(args_str) ==
  IF ~is_empty(args_str) THEN arguments_from(split(args_str, ","), 1) ELSE <<>>

instruction_info(caps) ==
  [name |-> caps.name, arguments |-> parse_arguments(caps.args_str)]

\* variant: the pending attribute text is attached to the next field
account_line_attached(st, raw) ==
  LET line == trim(raw)
      sp == split_once(line, ":")
  IN IF is_empty(line) THEN st
     ELSE IF starts_with(line, "#")
     THEN [st EXCEPT !.current_field = @ \o line \o " "]
     ELSE [fields |->
             IF sp.some
             THEN Append(st.fields,
                         [name |-> last_or_empty(split_whitespace(sp.before)),
                          type_name |-> st.current_field \o trim(sp.after)])
             ELSE st.fields,
           current_field |-> ""]

\* one iteration of the field loop of the resource-account rule; st holds
\* the loop's two locals, fields and current_field
account_line(st, raw) ==
  LET line == trim(raw)
      sp == split_once(line, ":")
  IN IF is_empty(line) THEN st
     ELSE IF starts_with(line, "#")
     THEN [st EXCEPT !.current_field = @ \o line \o " "]
     ELSE [fields |->
             IF sp.some
             THEN Append(st.fields,
                         [name |-> last_or_empty(split_whitespace(sp.before)),
                          type_name |-> trim(sp.after)])
             ELSE st.fields,
           current_field |-> ""]

RECURSIVE account_loop(_, _, _)
account_loop(ls, k, st) ==
  IF k > Len(ls) THEN st ELSE account_loop(ls, k + 1, account_line(st, ls[k]))

account_fields_of(body) ==
  account_loop(lines(body), 1, [fields |-> <<>>, current_field |-> ""]).fields

account_info(caps) ==
  [name |-> caps.name, fields |-> account_fields_of(caps.fields_str)]

\* one iteration of the field loop of the plain-struct rule
struct_line(fields, raw) ==
  LET line == trim(raw)
      sp == split_once(line, ":")
  IN IF is_empty(line) \/ starts_with(line, "#") THEN fields
     ELSE IF sp.some
     THEN Append(fields, [name |-> trim(sp.before), type_name |-> trim(sp.after)])
     ELSE fields

RECURSIVE struct_loop(_, _, _)
struct_loop(ls, k, fields) ==
  IF k > Len(ls) THEN fields ELSE struct_loop(ls, k + 1, struct_line(fields, ls[k]))

struct_fields_of(body) == struct_loop(lines(body), 1, <<>>)

struct_info(caps) ==
  [name |-> caps.name, fields |-> struct_fields_of(caps.fields_str)]

\* the code given to the line at zero-based position idx of the block body;
\* the u32 sum cannot wrap for a body of fewer than 2^32 - 6000 lines
error_code(idx) == idx + ErrorCodeBase

\* variant: the code counts the records pushed so far instead of the lines
error_line_counted(errors, idx, raw) ==
  LET line == trim(raw)
      name == next_or_empty(split_whitespace(line))
  IN IF is_empty(line) \/ starts_with(line, "#") THEN errors
     ELSE Append(errors, [name |-> name, code |-> error_code(Len(errors)),
                          message |-> name])

\* one iteration of the loop over the enumerated lines of the error block
error_line(errors, idx, raw) ==
  LET line == trim(raw)
      name == next_or_empty(split_whitespace(line))
  IN IF is_empty(line) \/ starts_with(line, "#") THEN errors
     ELSE Append(errors, [name |-> name, code |-> error_code(idx), message |-> name])

RECURSIVE error_loop(_, _, _)
error_loop(ls, k, errors) ==
  IF k > Len(ls) THEN errors
  ELSE error_loop(ls, k + 1, error_line(errors, k - 1, ls[k]))

(***************************************************************************)
(* The five rules as updates of the aggregate                              *)
(***************************************************************************)
\* variant: the last declaration wins
set_program_id_last(info, content) ==
  LET all == declare_id_captures(content, 1)
  IN IF all # <<>> THEN [info EXCEPT !.program_id = all[Len(all)].id] ELSE info

set_program_id(info, content) ==
  LET captures == FindDeclareId(content, 1)
  IN IF IsMatch(captures) THEN [info EXCEPT !.program_id = captures.id] ELSE info

push_instruction(info, caps) ==
  [info EXCEPT !.instructions = Append(@, instruction_info(caps))]

push_account(info, caps) ==
  [info EXCEPT !.accounts = Append(@, account_info(caps))]

push_errors(info, content) ==
  LET caps == FindError(content, 1)
  IN IF IsMatch(caps)
     THEN [info EXCEPT !.errors = error_loop(lines(caps.errors_str), 1, @)]
     ELSE info

\* variant: a struct already listed among the accounts is not listed again
push_struct_dedup(info, caps) ==
  IF caps.name \in {info.accounts[k].name : k \in 1..Len(info.accounts)}
  THEN info
  ELSE [info EXCEPT !.structs = Append(@, struct_info(caps))]

push_struct(info, caps) ==
  [info EXCEPT !.structs = Append(@, struct_info(caps))]

\* the three captures_iter loops
RECURSIVE push_instructions(_, _, _)
push_instructions(info, ms, k) ==
  IF k > Len(ms) THEN info
  ELSE push_instructions(push_instruction(info, ms[k]), ms, k + 1)

RECURSIVE push_accounts(_, _, _)
push_accounts(info, ms, k) ==
  IF k > Len(ms) THEN info
  ELSE push_accounts(push_account(info, ms[k]), ms, k + 1)

RECURSIVE push_structs(_, _, _)
push_structs(info, ms, k) ==
  IF k > Len(ms) THEN info
  ELSE push_structs(push_struct(info, ms[k]), ms, k + 1)

parse_program_info(content) ==
  LET i1 == set_program_id(EmptyProgramInfo, content)
      i2 == push_instructions(i1, instruction_captures(content, 1), 1)
      i3 == push_accounts(i2, account_captures(content, 1), 1)
      i4 == push_errors(i3, content)
  IN push_structs(i4, struct_captures(content, 1), 1)

(***************************************************************************)
(* serde_json::to_string_pretty of the aggregate (two-space indentation,   *)
(* fields in declaration order)                                            *)
(***************************************************************************)
RECURSIVE json_escape(_)
json_escape(s) ==
  IF s = "" THEN ""
  ELSE LET c == Head(s)
           e == CASE c = "\"" -> "\\\""
                  [] c = "\\" -> "\\\\"
                  [] c = "\n" -> "\\n"
                  [] c = "\r" -> "\\r"
                  [] c = "\t" -> "\\t"
                  [] OTHER -> c
       IN e \o json_escape(Tail(s))

json_string(s) == "\"" \o json_escape(s) \o "\""

RECURSIVE json_indent(_)
json_indent(depth) == IF depth = 0 THEN "" ELSE "  " \o json_indent(depth - 1)

RECURSIVE json_join(_, _, _)
json_join(items, k, depth) ==
  IF k > Len(items) THEN ""
  ELSE json_indent(depth) \o items[k]
       \o (IF k < Len(items) THEN ",\n" ELSE "\n")
       \o json_join(items, k + 1, depth)

json_array(items, depth) ==
  IF items = <<>> THEN "[]"
  ELSE "[\n" \o json_join(items, 1, depth + 1) \o json_indent(depth) \o "]"

json_object(members, depth) ==
  "{\n" \o json_join(members, 1, depth + 1) \o json_indent(depth) \o "}"

json_member(key, value) == json_string(key) \o ": " \o value

json_pair(r, depth) ==
  json_object(<<json_member("name", json_string(r.name)),
                json_member("type_name", json_string(r.type_name))>>, depth)

json_named(r, listKey, list, depth) ==
  json_object(<<json_member("name", json_string(r.name)),
                json_member(listKey,
                  json_array([k \in 1..Len(list) |-> json_pair(list[k], depth + 2)],
                             depth + 1))>>, depth)

json_error(r, depth) ==
  json_object(<<json_member("name", json_string(r.name)),
                json_member("code", ToString(r.code)),
                json_member("message", json_string(r.message))>>, depth)

to_string_pretty(info) ==
  json_object(
    <<json_member("program_id", json_string(info.program_id)),
      json_member("instructions",
        json_array([k \in 1..Len(info.instructions) |->
                      json_named(info.instructions[k], "arguments",
                                 info.instructions[k].arguments, 2)], 1)),
      json_member("accounts",
        json_array([k \in 1..Len(info.accounts) |->
                      json_named(info.accounts[k], "fields",
                                 info.accounts[k].fields, 2)], 1)),
      json_member("errors",
        json_array([k \in 1..Len(info.errors) |-> json_error(info.errors[k], 2)], 1)),
      json_member("structs",
        json_array([k \in 1..Len(info.structs) |->
                      json_named(info.structs[k], "fields",
                                 info.structs[k].fields, 2)], 1))>>, 0)

(***************************************************************************)
(* Inputs: command lines, source files and block bodies                    *)
(***************************************************************************)
UsageLine ==
  "Solana Swap Program - Use 'dump_info' command to export program definition"

WarningLine == "Warning: Could not read lib.rs at programs/swap-program/src/lib.rs"

\* env::args(): the program name followed by the command-line arguments
ArgVectors ==
  {<<>>, <<"swap">>, <<"swap", "dump_info">>, <<"swap", "help">>,
   <<"swap", "help", "dump_info">>}

\* declarations a source file is assembled from
Fragments ==
  {"declare_id!(\"ABC123\");\n",
   "declare_id!(\"XYZ\");\n",
   "declare_id!(\"\");\n",
   "pub fn foo(ctx: Context<Bar>, id: u64, amount: u64)\n",
   "pub fn baz(ctx: Context<Qux>)\n",
   "pub fn put(ctx: Context<Bar>, m: Map<K, V>, t: token::Mint)\n",
   "pub fn save_offer(context: Context<MakeOffer>, id: u64)\n",
   "#[derive(Accounts)]\npub struct TakeOffer<'info> {\n    pub taker: Signer<'info>,\n}\n",
   "#[derive(Accounts)]\n#[instruction(id: u64)]\npub struct MakeOffer<'info> {\n    pub maker: Signer<'info>,\n}\n",
   "#[derive(Accounts)]\npub struct Refund<'info> {\n    #[account(mut)]\n    pub maker: Signer<'info>,\n\n    vault: Box<Account>\n}\n",
   "pub struct Offer {\n    pub id: u64,\n    maker: Pubkey,\n}\n",
   "pub struct TakeOffer {\n    bump: u8,\n}\n",
   "pub enum Error {\n    A,\n    B,\n    C,\n}\n",
   "pub enum Error {\n    #[msg(\"too large\")]\n    TooLarge,\n\n    Empty = 7,\n}\n",
   "pub enum Error { Only }\n"}

\* the declarations used when the rules are interleaved
ParFragments ==
  {"declare_id!(\"ABC123\");\n",
   "pub fn foo(ctx: Context<Bar>, id: u64, amount: u64)\n",
   "pub fn put(ctx: Context<Bar>, m: Map<K, V>, t: token::Mint)\n",
   "#[derive(Accounts)]\npub struct TakeOffer<'info> {\n    pub taker: Signer<'info>,\n}\n",
   "#[derive(Accounts)]\npub struct Refund<'info> {\n    #[account(mut)]\n    pub maker: Signer<'info>,\n\n    vault: Box<Account>\n}\n",
   "pub struct Offer {\n    pub id: u64,\n    maker: Pubkey,\n}\n",
   "pub struct TakeOffer {\n    bump: u8,\n}\n",
   "pub enum Error {\n    #[msg(\"too large\")]\n    TooLarge,\n\n    Empty = 7,\n}\n"}

RECURSIVE TextsOfLen(_, _)
TextsOfLen(frags, n) ==
  IF n = 0 THEN {""}
  ELSE {t \o f : t \in TextsOfLen(frags, n - 1), f \in frags}

Texts(frags, max) == UNION {TextsOfLen(frags, n) : n \in 0..max}

\* the file at programs/swap-program/src/lib.rs: unreadable, or its text
Unreadable == [ok |-> FALSE, text |-> ""]

Files == {Unreadable} \cup {[ok |-> TRUE, text |-> t] : t \in Texts(Fragments, MaxDecls)}

\* lines a brace-delimited body is assembled from
BodyLines ==
  {"", "    #[account(mut)]", "    pub maker: Signer<'info>,", "    id: u64,",
   "    Orphan", "  pub(crate) seeds: [u8; 2] ", "    #[doc = \"a: b\"]"}

RECURSIVE BodiesOfLen(_)
BodiesOfLen(n) ==
  IF n = 0 THEN {"\n"}
  ELSE {b \o l \o "\n" : b \in BodiesOfLen(n - 1), l \in BodyLines}

Bodies == UNION {BodiesOfLen(n) : n \in 0..MaxLines}

Rules == {"program_id", "instructions", "accounts", "errors", "structs"}

(***************************************************************************)
(* The program: main, dump_program_info                                    *)
(***************************************************************************)
Init ==
  /\ args \in ArgVectors
  /\ file \in Files
  /\ pc = "main"
  /\ lib_content = <<>>
  /\ program_info = <<>>
  /\ stdout = <<>>
  /\ stderr = <<>>
  /\ exit_code = -1
  /\ scan = [r \in Rules |-> 0]
  /\ fields_str = ""
  /\ account_fields = <<>>
  /\ struct_fields = <<>>

\* variant: the subcommand is accepted at any argument position
is_dump_info_anywhere(a) == \E k \in 2..Len(a) : a[k] = "dump_info"

is_dump_info(a) == Len(a) > 1 /\ a[2] = "dump_info"

\* fs::read_to_string(..).unwrap_or_else(..): the text, or the empty buffer
read_or_empty(f) == IF f.ok THEN f.text ELSE ""

\* variant: the read failure is swallowed without a diagnostic
read_warning_silent(f) == <<>>

read_warning(f) == IF f.ok THEN <<>> ELSE <<WarningLine>>

MainDump ==
  /\ pc = "main"
  /\ is_dump_info(args)
  /\ pc' = "read"
  /\ UNCHANGED <<args, file, lib_content, program_info, stdout, stderr,
                 exit_code, scan, fields_str, account_fields, struct_fields>>

MainUsage ==
  /\ pc = "main"
  /\ ~is_dump_info(args)
  /\ stdout' = Append(stdout, UsageLine)
  /\ pc' = "return"
  /\ UNCHANGED <<args, file, lib_content, program_info, stderr,
                 exit_code, scan, fields_str, account_fields, struct_fields>>

ReadLib ==
  /\ pc = "read"
  /\ lib_content' = <<read_or_empty(file)>>
  /\ stderr' = stderr \o read_warning(file)
  /\ pc' = "parse"
  /\ UNCHANGED <<args, file, program_info, stdout,
                 exit_code, scan, fields_str, account_fields, struct_fields>>

Parse ==
  /\ pc = "parse"
  /\ program_info' = <<parse_program_info(lib_content[1])>>
  /\ pc' = "print"
  /\ UNCHANGED <<args, file, lib_content, stdout, stderr,
                 exit_code, scan, fields_str, account_fields, struct_fields>>

PrintInfo ==
  /\ pc = "print"
  /\ stdout' = Append(stdout, to_string_pretty(program_info[1]))
  /\ pc' = "return"
  /\ UNCHANGED <<args, file, lib_content, program_info, stderr,
                 exit_code, scan, fields_str, account_fields, struct_fields>>

Return ==
  /\ pc = "return"
  /\ exit_code' = 0
  /\ pc' = "exited"
  /\ UNCHANGED <<args, file, lib_content, program_info, stdout, stderr,
                 scan, fields_str, account_fields, struct_fields>>

Next == MainDump \/ MainUsage \/ ReadLib \/ Parse \/ PrintInfo \/ Return

Spec == Init /\ [][Next]_vars

(***************************************************************************)
(* The two field loops applied to one brace-delimited body                 *)
(***************************************************************************)
InitFields ==
  /\ args = <<>>
  /\ file = Unreadable
  /\ pc = "fields"
  /\ lib_content = <<>>
  /\ program_info = <<>>
  /\ stdout = <<>>
  /\ stderr = <<>>
  /\ exit_code = -1
  /\ scan = [r \in Rules |-> 0]
  /\ fields_str \in Bodies
  /\ account_fields = <<>>
  /\ struct_fields = <<>>

AccountFieldLoop ==
  /\ pc = "fields"
  /\ account_fields = <<>>
  /\ account_fields' = <<account_fields_of(fields_str)>>
  /\ UNCHANGED <<args, file, pc, lib_content, program_info, stdout, stderr,
                 exit_code, scan, fields_str, struct_fields>>

StructFieldLoop ==
  /\ pc = "fields"
  /\ struct_fields = <<>>
  /\ struct_fields' = <<struct_fields_of(fields_str)>>
  /\ UNCHANGED <<args, file, pc, lib_content, program_info, stdout, stderr,
                 exit_code, scan, fields_str, account_fields>>

NextFields == AccountFieldLoop \/ StructFieldLoop

SpecFields == InitFields /\ [][NextFields]_vars

(***************************************************************************)
(* The five rules of parse_program_info run as five independent scans of   *)
(* the same text, one match per step, in any interleaving.  scan[r] is the *)
(* position rule r searches from next, 0 once the rule has finished.       *)
(***************************************************************************)
InitPar ==
  /\ args = <<"swap", "dump_info">>
  /\ file \in {[ok |-> TRUE, text |-> t] : t \in Texts(ParFragments, MaxParDecls)}
  /\ pc = "parse"
  /\ lib_content = <<file.text>>
  /\ program_info = <<EmptyProgramInfo>>
  /\ stdout = <<>>
  /\ stderr = <<>>
  /\ exit_code = -1
  /\ scan = [r \in Rules |-> 1]
  /\ fields_str = ""
  /\ account_fields = <<>>
  /\ struct_fields = <<>>

\* the rules that use the first match only take one step; a captures_iter
\* rule takes one step per match and a last one that finds no further match
StepProgramId ==
  /\ pc = "parse"
  /\ scan.program_id > 0
  /\ program_info' = <<set_program_id(program_info[1], lib_content[1])>>
  /\ scan' = [scan EXCEPT !.program_id = 0]
  /\ UNCHANGED <<args, file, pc, lib_content, stdout, stderr,
                 exit_code, fields_str, account_fields, struct_fields>>

StepInstruction ==
  /\ pc = "parse"
  /\ scan.instructions > 0
  /\ LET caps == FindInstruction(lib_content[1], scan.instructions)
     IN IF IsMatch(caps)
        THEN /\ program_info' = <<push_instruction(program_info[1], caps)>>
             /\ scan' = [scan EXCEPT !.instructions = caps.end]
        ELSE /\ program_info' = program_info
             /\ scan' = [scan EXCEPT !.instructions = 0]
  /\ UNCHANGED <<args, file, pc, lib_content, stdout, stderr,
                 exit_code, fields_str, account_fields, struct_fields>>

StepAccount ==
  /\ pc = "parse"
  /\ scan.accounts > 0
  /\ LET caps == FindAccount(lib_content[1], scan.accounts)
     IN IF IsMatch(caps)
        THEN /\ program_info' = <<push_account(program_info[1], caps)>>
             /\ scan' = [scan EXCEPT !.accounts = caps.end]
        ELSE /\ program_info' = program_info
             /\ scan' = [scan EXCEPT !.accounts = 0]
  /\ UNCHANGED <<args, file, pc, lib_content, stdout, stderr,
                 exit_code, fields_str, account_fields, struct_fields>>

StepErrors ==
  /\ pc = "parse"
  /\ scan.errors > 0
  /\ program_info' = <<push_errors(program_info[1], lib_content[1])>>
  /\ scan' = [scan EXCEPT !.errors = 0]
  /\ UNCHANGED <<args, file, pc, lib_content, stdout, stderr,
                 exit_code, fields_str, account_fields, struct_fields>>

StepStruct ==
  /\ pc = "parse"
  /\ scan.structs > 0
  /\ LET caps == FindStruct(lib_content[1], scan.structs)
     IN IF IsMatch(caps)
        THEN /\ program_info' = <<push_struct(program_info[1], caps)>>
             /\ scan' = [scan EXCEPT !.structs = caps.end]
        ELSE /\ program_info' = program_info
             /\ scan' = [scan EXCEPT !.structs = 0]
  /\ UNCHANGED <<args, file, pc, lib_content, stdout, stderr,
                 exit_code, fields_str, account_fields, struct_fields>>

ParDone ==
  /\ pc = "parse"
  /\ \A r \in Rules : scan[r] = 0
  /\ pc' = "print"
  /\ UNCHANGED <<args, file, lib_content, program_info, stdout, stderr,
                 exit_code, scan, fields_str, account_fields, struct_fields>>

NextPar ==
  \/ StepProgramId \/ StepInstruction \/ StepAccount \/ StepErrors \/ StepStruct
  \/ ParDone

SpecPar == InitPar /\ [][NextPar]_vars

(***************************************************************************)
(* Vocabulary of the properties, stated on the text itself                 *)
(***************************************************************************)
Parsed == program_info # <<>>

Content == lib_content[1]

Info == program_info[1]

FirstArgIsDumpInfo == Len(args) >= 2 /\ args[2] = "dump_info"

\* the elements of a finite set of integers in increasing order
SortedSeq(S) ==
  [k \in 1..Cardinality(S) |->
     CHOOSE x \in S : Cardinality({y \in S : y < x}) = k - 1]

AllWhite(s, a, b) == \A i \in a..b : Ch(s, i) \in WhiteSpace

\* t is s without its leading and trailing white space
IsTrimOf(t, s) ==
  /\ t = "" \/ (Ch(t, 1) \notin WhiteSpace /\ Ch(t, Len(t)) \notin WhiteSpace)
  /\ \E i \in 1..(Len(s) + 1) :
       /\ i + Len(t) - 1 <= Len(s)
       /\ SubSeq(s, i, i + Len(t) - 1) = t
       /\ AllWhite(s, 1, i - 1)
       /\ AllWhite(s, i + Len(t), Len(s))

HasChar(s, c) == \E i \in 1..Len(s) : Ch(s, i) = c

FirstPos(s, c) == Min({i \in 1..Len(s) : Ch(s, i) = c})

\* the pieces of s between the occurrences of c, as <<first, last>> bounds
Pieces(s, c) ==
  LET cuts == SortedSeq({0} \cup {i \in 1..Len(s) : Ch(s, i) = c} \cup {Len(s) + 1})
  IN [k \in 1..(Len(cuts) - 1) |-> SubSeq(s, cuts[k] + 1, cuts[k + 1] - 1)]

\* the lines of a block body: a line starts at 1 and after each line feed
LineStarts(body) ==
  {p \in 1..Len(body) : p = 1 \/ Ch(body, p - 1) = "\n"}

LineAt(body, p) == SubSeq(body, p, UntilChar(body, p, "\n") - 1)

LineIndex(body, p) == Cardinality({i \in 1..(p - 1) : Ch(body, i) = "\n"})

\* a line that is neither blank nor an attribute line
IsEntryLine(l) ==
  \E i \in 1..Len(l) :
    /\ Ch(l, i) \notin WhiteSpace
    /\ Ch(l, i) # "#"
    /\ AllWhite(l, 1, i - 1)

Names(list) == {list[k].name : k \in 1..Len(list)}

(***************************************************************************)
(* C5  program identifier                                                  *)
(***************************************************************************)
DeclPrefix == "declare_id!(\""

\* the lengths n such that a declaration with an n-character literal
\* (n >= 1, no double quote inside) stands at position i
DeclLiteralLens(s, i) ==
  {n \in 1..(Len(s) - i) :
     /\ LitAt(s, i, DeclPrefix)
     /\ LitAt(s, i + Len(DeclPrefix) + n, "\")")
     /\ \A k \in 0..(n - 1) : Ch(s, i + Len(DeclPrefix) + k) # "\""}

DeclPositions(s) ==
  {i \in 1..Len(s) : LitAt(s, i, DeclPrefix) /\ DeclLiteralLens(s, i) # {}}

\* C5: the extracted program identifier is the literal of the first
\* declare_id!("<literal>") declaration of the text, later declarations are
\* ignored, and it is the empty string when the text has no declaration.
Thm_C5_FirstProgramId ==
  Parsed =>
    LET D == DeclPositions(Content)
    IN IF D = {} THEN Info.program_id = ""
       ELSE \E n \in DeclLiteralLens(Content, Min(D)) :
              Info.program_id =
                SubSeq(Content, Min(D) + Len(DeclPrefix), Min(D) + Len(DeclPrefix) + n - 1)

Wit_C5_TwoDeclarations ==
  /\ pc = "exited"
  /\ Parsed
  /\ Cardinality(DeclPositions(Content)) = 2
  /\ Info.program_id = "ABC123"
  /\ LitAt(Content, Max(DeclPositions(Content)), "declare_id!(\"XYZ\")")

(***************************************************************************)
(* C6  unreadable source file                                              *)
(***************************************************************************)
EmptyAggregateJson ==
  "{\n  \"program_id\": \"\",\n  \"instructions\": [],\n  \"accounts\": [],\n  \"errors\": [],\n  \"structs\": []\n}"

\* C6: when the dump_info run cannot read the source file, an empty text
\* buffer is substituted and a warning is emitted, extraction still runs and
\* yields identifier "" and four empty lists, the serialized aggregate is
\* printed, and the run ends with exit status 0.
Thm_C6_UnreadableFile ==
  (FirstArgIsDumpInfo /\ ~file.ok) =>
    /\ lib_content # <<>> => (Content = "" /\ stderr = <<WarningLine>>)
    /\ Parsed =>
         /\ Info.program_id = ""
         /\ Info.instructions = <<>> /\ Info.accounts = <<>>
         /\ Info.errors = <<>> /\ Info.structs = <<>>
    /\ pc \in {"return", "exited"} => stdout = <<EmptyAggregateJson>>
    /\ pc = "exited" => (exit_code = 0 /\ Parsed /\ lib_content # <<>>)
    /\ exit_code \in {-1, 0}

Wit_C6_UnreadableFile ==
  /\ pc = "exited"
  /\ FirstArgIsDumpInfo
  /\ ~file.ok
  /\ stdout = <<EmptyAggregateJson>>

(***************************************************************************)
(* C7  command-line dispatch                                               *)
(***************************************************************************)
\* C7: the file is read, parsed and the serialized aggregate printed if and
\* only if the first command-line argument is exactly "dump_info"; every
\* other invocation prints only the usage line, reads no file and builds no
\* aggregate; both branches end with exit status 0.
Thm_C7_Dispatch ==
  /\ (lib_content # <<>> \/ Parsed \/ pc \in {"read", "parse", "print"})
       => FirstArgIsDumpInfo
  /\ exit_code \in {-1, 0}
  /\ pc = "exited" =>
       /\ exit_code = 0
       /\ IF FirstArgIsDumpInfo
          THEN /\ lib_content = <<read_or_empty(file)>>
               /\ Parsed
               /\ stdout = <<to_string_pretty(Info)>>
          ELSE /\ lib_content = <<>>
               /\ ~Parsed
               /\ stdout = <<UsageLine>>
               /\ stderr = <<>>

Wit_C7_OtherInvocation ==
  /\ pc = "exited"
  /\ args = <<"swap", "help", "dump_info">>
  /\ stdout = <<UsageLine>>
  /\ file.ok /\ file.text # ""

(***************************************************************************)
(* C4  instruction arguments                                               *)
(***************************************************************************)
InstructionMatches == instruction_captures(Content, 1)

\* the pieces of an argument list that contain a colon, in order
ColonPieces(arglist) ==
  LET ps == Pieces(arglist, ",")
      keep == SortedSeq({k \in 1..Len(ps) : HasChar(ps[k], ":")})
  IN [j \in 1..Len(keep) |-> ps[keep[j]]]

\* the pair (name, type) is the piece split at its first colon, both trimmed
IsPairOf(arg, piece) ==
  LET c == FirstPos(piece, ":")
  IN /\ IsTrimOf(arg.name, SubSeq(piece, 1, c - 1))
     /\ IsTrimOf(arg.type_name, SubSeq(piece, c + 1, Len(piece)))

\* C4 as stated: every matched function declaration gives one entry named
\* NAME whose arguments are one (name, type) pair per comma-separated
\* fragment of ARGLIST, and no argument when ARGLIST is absent.
Orig_C4_PairPerFragment ==
  Parsed =>
    /\ Len(Info.instructions) = Len(InstructionMatches)
    /\ \A k \in 1..Len(InstructionMatches) :
         /\ Info.instructions[k].name = InstructionMatches[k].name
         /\ Len(Info.instructions[k].arguments) =
              IF InstructionMatches[k].has_args
              THEN Len(Pieces(InstructionMatches[k].args_str, ","))
              ELSE 0

\* C4 amended: every matched function declaration gives one entry named
\* NAME, in order of appearance, whose arguments are, in order, one
\* (name, type) pair per comma-separated fragment of ARGLIST that contains a
\* colon, split at its first colon with both parts trimmed; a fragment
\* without a colon contributes nothing, and so does an absent ARGLIST.
Thm_C4_PairPerColonFragment ==
  Parsed =>
    /\ Len(Info.instructions) = Len(InstructionMatches)
    /\ \A k \in 1..Len(InstructionMatches) :
         LET m == InstructionMatches[k]
             arguments == Info.instructions[k].arguments
             pieces == IF m.has_args THEN ColonPieces(m.args_str) ELSE <<>>
         IN /\ Info.instructions[k].name = m.name
            /\ Len(arguments) = Len(pieces)
            /\ \A j \in 1..Len(pieces) : IsPairOf(arguments[j], pieces[j])
            /\ (m.name = "foo" /\ m.args_str = "id: u64, amount: u64") =>
                 arguments = <<[name |-> "id", type_name |-> "u64"],
                               [name |-> "amount", type_name |-> "u64"]>>
            /\ ~m.has_args => arguments = <<>>

Wit_C4_SkippedFragment ==
  /\ pc = "exited"
  /\ Parsed
  /\ Len(Info.instructions) = 2
  /\ Info.instructions[1] = [name |-> "baz", arguments |-> <<>>]
  /\ Info.instructions[2] =
       [name |-> "put",
        arguments |-> <<[name |-> "m", type_name |-> "Map<K"],
                        [name |-> "t", type_name |-> "token::Mint"]>>]

(***************************************************************************)
(* C2  resource-account structs and the plain-struct list                  *)
(***************************************************************************)
AccountMatches == account_captures(Content, 1)

StructMatches == struct_captures(Content, 1)

ErrorBlockPositions == {i \in 1..Len(Content) : IsMatch(ErrorAt(Content, i))}

\* the body of the first error enumeration block of the text
FirstErrorBody == ErrorAt(Content, Min(ErrorBlockPositions)).errors_str

\* the starts of the variant lines of a body, in source order
VariantLines(body) ==
  SortedSeq({p \in LineStarts(body) : IsEntryLine(LineAt(body, p))})

\* C1: a text whose error enumeration block declares n variants gives
\* exactly n ErrorInfo records with the codes 6000, 6001, ..., 6000+n-1 in
\* declaration order and every message equal to its name, whatever blank or
\* attribute lines stand between the variant lines.
Orig_C1_SequentialCodes ==
  (Parsed /\ ErrorBlockPositions # {}) =>
    LET n == Len(VariantLines(FirstErrorBody))
    IN /\ Len(Info.errors) = n
       /\ \A k \in 1..n :
            /\ Info.errors[k].code = ErrorCodeBase + k - 1
            /\ Info.errors[k].message = Info.errors[k].name

\* C10: the code of each ErrorInfo is 6000 plus the zero-based index of its
\* line among all lines of the body of the first error enumeration block
\* (blank and attribute lines give no record but are counted); so the codes
\* are >= 6000 and strictly increasing in list order, and no later block
\* contributes a record.
Thm_C10_CodeIsLineIndex ==
  Parsed =>
    IF ErrorBlockPositions = {} THEN Info.errors = <<>>
    ELSE LET vs == VariantLines(FirstErrorBody)
         IN /\ Len(Info.errors) = Len(vs)
            /\ \A k \in 1..Len(vs) :
                 /\ Info.errors[k].code =
                      ErrorCodeBase + LineIndex(FirstErrorBody, vs[k])
                 /\ Info.errors[k].code >= ErrorCodeBase
                 /\ \A j \in 1..(k - 1) : Info.errors[j].code < Info.errors[k].code

Wit_C10_SkippedLinesCounted ==
  /\ pc = "exited"
  /\ Parsed
  /\ Cardinality(ErrorBlockPositions) = 2
  /\ Len(Info.errors) = 2
  /\ Info.errors[1].code = 6002
  /\ Info.errors[2].code = 6004

(***************************************************************************)
(* C3, C9  field loops                                                     *)
(***************************************************************************)
\* the starts of the attribute lines of a body
AttributeLines(body) ==
  {p \in LineStarts(body) :
     \E i \in 1..Len(LineAt(body, p)) :
       Ch(LineAt(body, p), i) = "#" /\ AllWhite(LineAt(body, p), 1, i - 1)}

\* the starts of the lines that declare a field, in source order
FieldLines(body) ==
  SortedSeq({p \in LineStarts(body) :
               IsEntryLine(LineAt(body, p)) /\ HasChar(LineAt(body, p), ":")})

\* name is the last white-space-separated token of pre ("" when pre has none)
IsLastTokenOf(name, pre) ==
  IF AllWhite(pre, 1, Len(pre)) THEN name = ""
  ELSE /\ name # ""
       /\ \A i \in 1..Len(name) : Ch(name, i) \notin WhiteSpace
       /\ \E i \in 1..Len(pre) :
            /\ i + Len(name) - 1 <= Len(pre)
            /\ SubSeq(pre, i, i + Len(name) - 1) = name
            /\ i = 1 \/ Ch(pre, i - 1) \in WhiteSpace
            /\ AllWhite(pre, i + Len(name), Len(pre))

Occurs(t, s) == \E i \in 1..(Len(s) - Len(t) + 1) : SubSeq(s, i, i + Len(t) - 1) = t

\* C3: on every body the plain-struct field loop gives the same ordered
\* (name, type) list as the resource-account field loop.
Orig_C3_SameFieldLoops ==
  (account_fields # <<>> /\ struct_fields # <<>>) =>
    struct_fields[1] = account_fields[1]

\* C9: in the resource-account field loop every line that is not blank,
\* does not start with '#' and contains a colon gives exactly one field, in
\* source order, named by the last white-space-separated token before the
\* first colon and typed by the trimmed text after it; attribute lines give
\* no field and their text is in no recorded name or type; every other line
\* is skipped.
Thm_C9_AccountFieldLoop ==
  account_fields # <<>> =>
    LET fields == account_fields[1]
        fl == FieldLines(fields_str)
    IN /\ Len(fields) = Len(fl)
       /\ \A k \in 1..Len(fl) :
            LET line == LineAt(fields_str, fl[k])
                c == FirstPos(line, ":")
            IN /\ IsLastTokenOf(fields[k].name, SubSeq(line, 1, c - 1))
               /\ IsTrimOf(fields[k].type_name, SubSeq(line, c + 1, Len(line)))
       /\ \A p \in AttributeLines(fields_str) : \A k \in 1..Len(fields) :
            LET attr == LineAt(fields_str, p)
                text == SubSeq(attr, UntilChar(attr, 1, "#"), Len(attr))
            IN ~Occurs(text, fields[k].name) /\ ~Occurs(text, fields[k].type_name)

Wit_C9_AttributeThenField ==
  /\ fields_str = "\n    #[doc = \"a: b\"]\n    pub maker: Signer<'info>,\n    Orphan\n"
  /\ account_fields = <<<<[name |-> "maker", type_name |-> "Signer<'info>,"]>>>>

(***************************************************************************)
(* C8  order independence of the five rules                                *)
(***************************************************************************)
\* C8: the five rules run in any order, their per-match steps interleaved in
\* any way, give the aggregate that parse_program_info builds by running
\* them one after the other.
Thm_C8_OrderIndependent ==
  pc = "print" => Info = parse_program_info(Content)

Wit_C8_AllRulesRan ==
  /\ pc = "print"
  /\ Names(Info.accounts) = {"TakeOffer"}
  /\ Names(Info.structs) = {"TakeOffer"}
  /\ \A r \in Rules : scan[r] = 0

====
